---- MODULE Spec2Model ----
(***************************************************************************)
(* State-machine model of src/App.tsx (the App component): the React state *)
(* of the component, the localStorage slot 'shoppingHistory', the three    *)
(* effects (load, save, filter) and the event handlers with their          *)
(* asynchronous continuations.                                             *)
(*                                                                         *)
(* Conventions.  A nullable value (T | null) is a sequence: Null is <<>>   *)
(* and a present value x is <<x>>.  A JavaScript string is a sequence of   *)
(* one-character strings where the code looks inside it (names, search     *)
(* terms) and a TLA+ string where it does not (messages, data URLs).  An   *)
(* instant is a tick count; an ISO-8601 string is the pair <<day, tick of  *)
(* the day>> that toISOString() prints.                                    *)
(***************************************************************************)
EXTENDS Integers, Sequences, FiniteSets, TLC

(***************************************************************************)
(* Bounds of the model.                                                    *)
(***************************************************************************)
MaxRecords == 2      \* records kept in memory at most
MaxTime == 2         \* the clock reads 0..MaxTime
TicksPerDay == 2     \* ticks in one UTC calendar day
MaxInFlight == 2     \* asynchronous invocations outstanding per handler at most
MaxGeo == 1          \* geolocation requests outstanding at most
MaxFailures == 1     \* storage writes that throw at most

Null == <<>>
Some(x) == <<x>>

Times == 0..MaxTime
\* two of the numbers Math.random() returns
Randoms == {0, 1}

(***************************************************************************)
(* Date: new Date().toISOString(), new Date(s).getTime() and               *)
(* s.split('T')[0].                                                        *)
(***************************************************************************)
toISOString(t) == <<t \div TicksPerDay, t % TicksPerDay>>

getTime(iso) == iso[1] * TicksPerDay + iso[2]

IsoDay(iso) == iso[1]

Days == {IsoDay(toISOString(t)) : t \in Times}

(***************************************************************************)
(* Strings the code looks inside: product names and search terms.          *)
(***************************************************************************)
Milk == <<"M", "i", "l", "k">>
Bread == <<"B", "r", "e", "a", "d">>
Names == {Milk, Bread}
SearchTerms == {<<>>, <<"m", "i", "l">>, <<"R", "E">>}

LowerChar(c) ==
    CASE c = "M" -> "m"
      [] c = "I" -> "i"
      [] c = "L" -> "l"
      [] c = "K" -> "k"
      [] c = "B" -> "b"
      [] c = "R" -> "r"
      [] c = "E" -> "e"
      [] c = "A" -> "a"
      [] c = "D" -> "d"
      [] OTHER -> c

toLowerCase(s) == [i \in 1..Len(s) |-> LowerChar(s[i])]

includes(s, sub) ==
    \E k \in 0..(Len(s) - Len(sub)) :
        \A i \in 1..Len(sub) : s[k + i] = sub[i]

(***************************************************************************)
(* Values of the other fields.                                             *)
(***************************************************************************)
Positions == {[latitude |-> 48, longitude |-> 2]}
DataUrls == {"data:image/jpeg;base64,AAAA"}
\* the price field of the form: <<integer part, hundredths>> of a decimal
PriceFields == {<<2, 50>>}
\* parseFloat of the price field, in hundredths
parseFloat(f) == f[1] * 100 + f[2]
OcrResults == {[productName |-> n, price |-> parseFloat(f)] :
                   n \in {Milk}, f \in PriceFields}

StorageWarning == "Could not save new records. Your browser's storage might be full."
OcrFailure == "extraction failed"
OcrUnknown == "An unknown error occurred during image processing."
GeoFailure == "Could not get location. Please ensure location services are enabled."
GeoUnsupported == "Geolocation is not supported by this browser."
AnalysisFailure == "analysis failed"
AnalysisUnknown == "An unknown error occurred during analysis."

(***************************************************************************)
(* JSON.  A JSON text is modelled by its token structure: a value is       *)
(* [t |-> kind, v |-> payload], an object is the sequence of its           *)
(* <<key, value>> members in insertion order.                              *)
(***************************************************************************)
JsonNull == [t |-> "null", v |-> <<>>]
JsonString(s) == [t |-> "string", v |-> <<s>>]
\* a number printed without its fraction (the unit is a hundredth)
JsonNumberTruncated(n) == [t |-> "number", v |-> <<n - (n % 100)>>]
JsonNumber(n) == [t |-> "number", v |-> <<n>>]
JsonObject(members) == [t |-> "object", v |-> members]

StringifyLocation(loc) ==
    IF loc = Null
    THEN JsonNull
    ELSE JsonObject(<< <<"latitude", JsonNumber(loc[1].latitude)>>,
                       <<"longitude", JsonNumber(loc[1].longitude)>> >>)

StringifyRecord(r) ==
    JsonObject(<< <<"id", JsonString(r.id)>>,
                  <<"imageUrl", JsonString(r.imageUrl)>>,
                  <<"name", JsonString(r.name)>>,
                  <<"price", JsonNumber(r.price)>>,
                  <<"date", JsonString(r.date)>>,
                  <<"location", StringifyLocation(r.location)>> >>)

\* JSON.stringify(records): the text written to the slot
stringify(recs) ==
    [kind |-> "array", items |-> [i \in 1..Len(recs) |-> StringifyRecord(recs[i])]]

\* the value of the member named key of a JSON object
Member(obj, key) ==
    LET i == CHOOSE j \in 1..Len(obj.v) : obj.v[j][1] = key
    IN  obj.v[i][2]

ParseLocation(tok) ==
    IF tok.t = "null"
    THEN Null
    ELSE Some([latitude |-> Member(tok, "latitude").v[1],
               longitude |-> Member(tok, "longitude").v[1]])

ParseRecord(obj) ==
    [id |-> Member(obj, "id").v[1],
     imageUrl |-> Member(obj, "imageUrl").v[1],
     name |-> Member(obj, "name").v[1],
     price |-> Member(obj, "price").v[1],
     date |-> Member(obj, "date").v[1],
     location |-> ParseLocation(Member(obj, "location"))]

\* JSON.parse(text): throws on a text that is not JSON, and yields whatever
\* value the text denotes otherwise, an array or not
parse(text) ==
    CASE text.kind = "array" ->
           [threw |-> FALSE, isArray |-> TRUE,
            value |-> [i \in 1..Len(text.items) |-> ParseRecord(text.items[i])]]
      [] text.kind = "jsonnull" ->
           [threw |-> FALSE, isArray |-> FALSE, value |-> <<>>]
      [] OTHER ->
           [threw |-> TRUE, isArray |-> FALSE, value |-> <<>>]

(***************************************************************************)
(* The localStorage slot: getItem gives null (no item) or the stored text. *)
(***************************************************************************)
NoItem == [kind |-> "null", items |-> <<>>]
EmptyText == [kind |-> "empty", items |-> <<>>]
MalformedText == [kind |-> "malformed", items |-> <<>>]
NullText == [kind |-> "jsonnull", items |-> <<>>]

\* if (storedRecords): null and '' are falsy
Truthy(item) == item.kind \notin {"null", "empty"}

(***************************************************************************)
(* The state.                                                              *)
(***************************************************************************)
VARIABLES
    records,            \* useState<ProductRecord[]>([])
    filteredRecords,    \* useState<ProductRecord[]>([])
    isLoadingOcr,       \* useState(false)
    isLoadingAnalysis,  \* useState(false)
    ocrResult,          \* useState<OcrResult | null>(null)
    analysisResult,     \* useState('')
    error,              \* useState<string | null>(null)
    analysisQuery,      \* useState('')
    imagePreview,       \* useState<string | null>(null)
    userLocation,       \* useState<GeolocationPosition | null>(null)
    searchTerm,         \* useState('')
    dateFilter,         \* useState(''): Null is '', <<d>> is the day d
    persisted,          \* the localStorage slot 'shoppingHistory'
    pc,                 \* where the component is in its life cycle
    queuedRecords,      \* setRecords(...) of the load effect, not yet rendered
    queuedError,        \* setError(...) of the mount-time save effect, not yet rendered
    ocrOps,             \* the handleFileChange invocations awaiting a promise
    analysisOps,        \* the handleAnalyze invocations awaiting the service
    geoOps,             \* the getCurrentPosition requests awaiting their callback
    saveStatus,         \* outcome of the latest run of the save effect
    failures,           \* how many times setItem has thrown
    boot,               \* the collection a reload found saved, until the first
                        \* add or remove after it
    flow                \* history of the add flow: how its latest event ended,
                        \* how many of the outstanding geolocation requests
                        \* were made before the form was last reset, and
                        \* which request set userLocation

vars == <<records, filteredRecords, isLoadingOcr, isLoadingAnalysis, ocrResult,
          analysisResult, error, analysisQuery, imagePreview, userLocation,
          searchTerm, dateFilter, persisted, pc, queuedRecords, queuedError,
          ocrOps, analysisOps, geoOps, saveStatus, failures, boot, flow>>

\* the useState initial values of lines 12-24
InitialState ==
    /\ records = <<>>
    /\ filteredRecords = <<>>
    /\ isLoadingOcr = FALSE
    /\ isLoadingAnalysis = FALSE
    /\ ocrResult = Null
    /\ analysisResult = <<>>
    /\ error = Null
    /\ analysisQuery = <<>>
    /\ imagePreview = Null
    /\ userLocation = Null
    /\ searchTerm = <<>>
    /\ dateFilter = Null

\* no add flow yet
NoFlow == [status |-> "none", staleGeo |-> 0, location |-> "none"]

\* what the slot may hold when the application is first opened
InitialSlots == {NoItem, EmptyText, MalformedText, NullText}

Init ==
    /\ InitialState
    /\ persisted \in InitialSlots
    /\ pc = "mount"
    /\ queuedRecords = Null
    /\ queuedError = Null
    /\ ocrOps = <<>>
    /\ analysisOps = 0
    /\ geoOps = 0
    /\ saveStatus = "none"
    /\ failures = 0
    /\ boot = Null
    /\ flow = NoFlow

(***************************************************************************)
(* The save effect (lines 37-44): setItem overwrites the slot with the     *)
(* whole collection; when it throws, the slot is left as it was and the    *)
(* warning is set.  err is the error state the effect finds.              *)
(***************************************************************************)
\* the effect with the records of the first render (a dependency array of [])
SaveEffectStale(slot, recs, err, writeOk) ==
    IF writeOk
    THEN [slot |-> stringify(<<>>), error |-> err, failed |-> FALSE]
    ELSE [slot |-> slot, error |-> Some(StorageWarning), failed |-> TRUE]

\* the effect that only logs a failed write
SaveEffectSilent(slot, recs, err, writeOk) ==
    IF writeOk
    THEN [slot |-> stringify(recs), error |-> err, failed |-> FALSE]
    ELSE [slot |-> slot, error |-> err, failed |-> TRUE]

SaveEffect(slot, recs, err, writeOk) ==
    IF writeOk
    THEN [slot |-> stringify(recs), error |-> err, failed |-> FALSE]
    ELSE [slot |-> slot, error |-> Some(StorageWarning), failed |-> TRUE]

(***************************************************************************)
(* The filter effect (lines 46-62).  tempRecords is a copy of records, so  *)
(* the in-place sort leaves records alone: store is the records array      *)
(* after the effect, view the argument of setFilteredRecords.              *)
(***************************************************************************)
\* the name test without toLowerCase
NameMatchesCaseSensitive(r, term) == includes(r.name, term)

NameMatches(r, term) == includes(toLowerCase(r.name), toLowerCase(term))

DateMatches(r, dateF) == Some(IsoDay(toISOString(getTime(r.date)))) = dateF

\* s with x put behind every element that does not compare after it
InsertDesc(s, x) ==
    LET before == {i \in 1..Len(s) : getTime(s[i].date) >= getTime(x.date)}
        k == IF before = {} THEN 0 ELSE CHOOSE i \in before : \A j \in before : j <= i
    IN  SubSeq(s, 1, k) \o <<x>> \o SubSeq(s, k + 1, Len(s))

\* s with x put behind every element that does not compare after it, ascending
InsertAsc(s, x) ==
    LET before == {i \in 1..Len(s) : getTime(s[i].date) <= getTime(x.date)}
        k == IF before = {} THEN 0 ELSE CHOOSE i \in before : \A j \in before : j <= i
    IN  SubSeq(s, 1, k) \o <<x>> \o SubSeq(s, k + 1, Len(s))

RECURSIVE sortAscending(_)
\* the sort with (a, b) => time(a) - time(b)
sortAscending(s) ==
    IF s = <<>> THEN <<>>
    ELSE InsertAsc(sortAscending(SubSeq(s, 1, Len(s) - 1)), s[Len(s)])

RECURSIVE sort(_)
\* Array.prototype.sort with (a, b) => time(b) - time(a): stable, descending
sort(s) ==
    IF s = <<>> THEN <<>> ELSE InsertDesc(sort(SubSeq(s, 1, Len(s) - 1)), s[Len(s)])

\* the effect sorting records itself when no filter has copied it
FilterEffectInPlace(recs, term, dateF) ==
    LET byName == IF term # <<>>
                  THEN SelectSeq(recs, LAMBDA r : NameMatches(r, term))
                  ELSE recs
        byDate == IF dateF # Null
                  THEN SelectSeq(byName, LAMBDA r : DateMatches(r, dateF))
                  ELSE byName
    IN  [store |-> IF term = <<>> /\ dateF = Null THEN sort(recs) ELSE recs,
         view |-> sort(byDate)]

FilterEffect(recs, term, dateF) ==
    LET copy == recs
        byName == IF term # <<>>
                  THEN SelectSeq(copy, LAMBDA r : NameMatches(r, term))
                  ELSE copy
        byDate == IF dateF # Null
                  THEN SelectSeq(byName, LAMBDA r : DateMatches(r, dateF))
                  ELSE byName
    IN  [store |-> recs, view |-> sort(byDate)]

(***************************************************************************)
(* One render and the effects it runs, after the state updates of a        *)
(* handler.  recs is the records state to render, changed says whether     *)
(* setRecords gave it a new array (the save effect depends on [records]),  *)
(* filterRuns whether a dependency of the filter effect changed, err the   *)
(* error state the handler leaves, writeOk whether setItem succeeds.       *)
(***************************************************************************)
Render(recs, changed, filterRuns, term, dateF, err, writeOk) ==
    LET se == IF changed
              THEN SaveEffect(persisted, recs, err, writeOk)
              ELSE [slot |-> persisted, error |-> err, failed |-> FALSE]
        fe == IF filterRuns
              THEN FilterEffect(recs, term, dateF)
              ELSE [store |-> recs, view |-> filteredRecords]
    IN  /\ (se.failed => failures < MaxFailures)
        /\ failures' = IF se.failed THEN failures + 1 ELSE failures
        /\ persisted' = se.slot
        /\ error' = se.error
        /\ saveStatus' = IF ~changed THEN saveStatus
                         ELSE IF se.failed THEN "failed" ELSE "ok"
        /\ records' = fe.store
        /\ filteredRecords' = fe.view
        /\ searchTerm' = term
        /\ dateFilter' = dateF

(***************************************************************************)
(* Mount (lines 26-62): the effects run in order after the first render,   *)
(* each seeing the state of that render (records = []); the state updates  *)
(* they queue are applied by the render that follows.                      *)
(***************************************************************************)
\* the load effect, lines 26-35
LoadEffect ==
    /\ pc = "mount"
    /\ pc' = "loaded"
    /\ LET storedRecords == persisted
           p == parse(storedRecords)
       IN  queuedRecords' = IF Truthy(storedRecords) /\ ~p.threw
                            THEN Some([isArray |-> p.isArray, value |-> p.value])
                            ELSE Null
    /\ UNCHANGED <<records, filteredRecords, isLoadingOcr, isLoadingAnalysis,
                   ocrResult, analysisResult, error, analysisQuery, imagePreview,
                   userLocation, searchTerm, dateFilter, persisted, queuedError,
                   ocrOps, analysisOps, geoOps, saveStatus, failures, boot, flow>>

\* the save effect of the first render, lines 37-44
MountSaveEffect(writeOk) ==
    /\ pc = "loaded"
    /\ pc' = "saved"
    /\ LET se == SaveEffect(persisted, records, queuedError, writeOk)
       IN  /\ (se.failed => failures < MaxFailures)
           /\ failures' = IF se.failed THEN failures + 1 ELSE failures
           /\ persisted' = se.slot
           /\ queuedError' = se.error
           /\ saveStatus' = IF se.failed THEN "failed" ELSE "ok"
    /\ UNCHANGED <<records, filteredRecords, isLoadingOcr, isLoadingAnalysis,
                   ocrResult, analysisResult, error, analysisQuery, imagePreview,
                   userLocation, searchTerm, dateFilter, queuedRecords,
                   ocrOps, analysisOps, geoOps, boot, flow>>

\* the filter effect of the first render, lines 46-62
MountFilterEffect ==
    /\ pc = "saved"
    /\ pc' = "effects"
    /\ LET fe == FilterEffect(records, searchTerm, dateFilter)
       IN  /\ records' = fe.store
           /\ filteredRecords' = fe.view
    /\ UNCHANGED <<isLoadingOcr, isLoadingAnalysis, ocrResult, analysisResult,
                   error, analysisQuery, imagePreview, userLocation, searchTerm,
                   dateFilter, persisted, queuedRecords, queuedError,
                   ocrOps, analysisOps, geoOps, saveStatus, failures, boot, flow>>

\* the render after the mount effects; a records state that is not an array
\* throws in it (records.length, line 294; [...records], line 47) and the
\* component tree is unmounted
Rerender(writeOk) ==
    /\ pc = "effects"
    /\ queuedRecords' = Null
    /\ queuedError' = Null
    /\ UNCHANGED <<isLoadingOcr, isLoadingAnalysis, ocrResult, analysisResult,
                   analysisQuery, imagePreview, userLocation,
                   ocrOps, analysisOps, geoOps, boot, flow>>
    /\ IF queuedRecords # Null /\ ~queuedRecords[1].isArray
       THEN /\ pc' = "crashed"
            /\ UNCHANGED <<records, filteredRecords, error, searchTerm, dateFilter,
                           persisted, saveStatus, failures>>
       ELSE /\ pc' = "ready"
            /\ (queuedRecords = Null => writeOk)
            /\ Render(IF queuedRecords # Null THEN queuedRecords[1].value ELSE records,
                      queuedRecords # Null, queuedRecords # Null,
                      searchTerm, dateFilter, queuedError, writeOk)

\* the page is reloaded: a fresh start with the slot as it is
Reload ==
    /\ pc \in {"ready", "crashed"}
    /\ records' = <<>>
    /\ filteredRecords' = <<>>
    /\ isLoadingOcr' = FALSE
    /\ isLoadingAnalysis' = FALSE
    /\ ocrResult' = Null
    /\ analysisResult' = <<>>
    /\ error' = Null
    /\ analysisQuery' = <<>>
    /\ imagePreview' = Null
    /\ userLocation' = Null
    /\ searchTerm' = <<>>
    /\ dateFilter' = Null
    /\ pc' = "mount"
    /\ queuedRecords' = Null
    /\ queuedError' = Null
    /\ ocrOps' = <<>>
    /\ analysisOps' = 0
    /\ geoOps' = 0
    /\ saveStatus' = "none"
    /\ failures' = failures
    /\ boot' = IF pc = "ready" /\ saveStatus = "ok" THEN Some(records) ELSE Null
    /\ flow' = NoFlow
    /\ UNCHANGED persisted

(***************************************************************************)
(* The add form.                                                           *)
(***************************************************************************)
\* the four states resetAddForm writes, as one record
Form == [ocrResult |-> ocrResult, imagePreview |-> imagePreview,
         userLocation |-> userLocation, error |-> error]

\* the reset that leaves the preview in place
resetAddFormKeepsPreview(f) ==
    [f EXCEPT !.ocrResult = Null, !.userLocation = Null, !.error = Null]

\* resetAddForm, lines 105-113
resetAddForm(f) ==
    [f EXCEPT !.ocrResult = Null, !.imagePreview = Null,
              !.userLocation = Null, !.error = Null]

\* the history after resetAddForm has run and the flow is in status st: the
\* geolocation requests still outstanding were made for the form as it was
FlowReset(st) == [status |-> st, staleGeo |-> geoOps, location |-> "none"]

\* a render that changes neither records nor a filter input, leaving form f
RenderForm(f) ==
    /\ ocrResult' = f.ocrResult
    /\ imagePreview' = f.imagePreview
    /\ userLocation' = f.userLocation
    /\ Render(records, FALSE, FALSE, searchTerm, dateFilter, f.error, TRUE)

\* the file input without its disabled attribute
FileInputNeverDisabled == FALSE

\* <input type="file" disabled={isLoadingOcr}>, line 217
FileInputDisabled == isLoadingOcr

\* handleFileChange up to its first await, lines 115-124
HandleFileChange(hasFile) ==
    /\ pc = "ready"
    /\ ~FileInputDisabled
    /\ Len(ocrOps) < MaxInFlight
    /\ IF ~hasFile
       THEN UNCHANGED vars
       ELSE /\ RenderForm(resetAddForm(Form))
            /\ isLoadingOcr' = TRUE
            /\ ocrOps' = Append(ocrOps, "resize")
            /\ flow' = FlowReset("extracting")
            /\ UNCHANGED <<isLoadingAnalysis, analysisResult, analysisQuery, pc,
                           queuedRecords, queuedError, analysisOps, geoOps, boot>>

\* the sequence s without its i-th element
RemoveAt(s, i) == SubSeq(s, 1, i - 1) \o SubSeq(s, i + 1, Len(s))

\* err.message || fallback
MessageOr(message, fallback) == IF message = "" THEN fallback ELSE message

\* the catch block without the finally block
FileChangeFailedKeepsLoading(i, message) ==
    /\ RenderForm(resetAddForm([Form EXCEPT !.error = Some(MessageOr(message, OcrUnknown))]))
    /\ isLoadingOcr' = isLoadingOcr
    /\ ocrOps' = RemoveAt(ocrOps, i)
    /\ flow' = FlowReset("failed")
    /\ UNCHANGED <<isLoadingAnalysis, analysisResult, analysisQuery, pc,
                   queuedRecords, queuedError, analysisOps, geoOps, boot>>

\* the catch and finally blocks of handleFileChange, lines 131-136
FileChangeFailed(i, message) ==
    /\ RenderForm(resetAddForm([Form EXCEPT !.error = Some(MessageOr(message, OcrUnknown))]))
    /\ isLoadingOcr' = FALSE
    /\ ocrOps' = RemoveAt(ocrOps, i)
    /\ flow' = FlowReset("failed")
    /\ UNCHANGED <<isLoadingAnalysis, analysisResult, analysisQuery, pc,
                   queuedRecords, queuedError, analysisOps, geoOps, boot>>

\* what resizeImage rejects with: an Event (no message) from reader.onerror
\* or img.onerror, or the Error of line 93
ResizeErrors == {"", "Could not get canvas context"}
\* what extractProductInfoFromImage rejects with
ExtractErrors == {"", OcrFailure}

\* resizeImage resolves: lines 125-129, up to the second await
ResizeResolved(i, dataUrl) ==
    /\ pc = "ready"
    /\ i \in DOMAIN ocrOps
    /\ ocrOps[i] = "resize"
    /\ RenderForm([Form EXCEPT !.imagePreview = Some(dataUrl)])
    /\ ocrOps' = [ocrOps EXCEPT ![i] = "extract"]
    /\ UNCHANGED <<isLoadingOcr, isLoadingAnalysis, analysisResult, analysisQuery,
                   pc, queuedRecords, queuedError, analysisOps, geoOps, boot, flow>>

\* resizeImage rejects
ResizeRejected(i, message) ==
    /\ pc = "ready"
    /\ i \in DOMAIN ocrOps
    /\ ocrOps[i] = "resize"
    /\ FileChangeFailed(i, message)

\* extractProductInfoFromImage resolves: line 130 and the finally block
ExtractResolved(i, result) ==
    /\ pc = "ready"
    /\ i \in DOMAIN ocrOps
    /\ ocrOps[i] = "extract"
    /\ RenderForm([Form EXCEPT !.ocrResult = Some(result)])
    /\ isLoadingOcr' = FALSE
    /\ ocrOps' = RemoveAt(ocrOps, i)
    /\ flow' = [flow EXCEPT !.status = "offered"]
    /\ UNCHANGED <<isLoadingAnalysis, analysisResult, analysisQuery, pc,
                   queuedRecords, queuedError, analysisOps, geoOps, boot>>

\* extractProductInfoFromImage rejects
ExtractRejected(i, message) ==
    /\ pc = "ready"
    /\ i \in DOMAIN ocrOps
    /\ ocrOps[i] = "extract"
    /\ FileChangeFailed(i, message)

\* the Cancel button of the form (line 269), shown while ocrResult is set
Cancel ==
    /\ pc = "ready"
    /\ ocrResult # Null
    /\ RenderForm(resetAddForm(Form))
    /\ flow' = FlowReset("cancelled")
    /\ UNCHANGED <<isLoadingOcr, isLoadingAnalysis, analysisResult, analysisQuery,
                   pc, queuedRecords, queuedError, ocrOps, analysisOps, geoOps, boot>>

(***************************************************************************)
(* Geolocation, lines 139-156.  The button is in the form (shown while     *)
(* ocrResult is set) and disabled once userLocation is set (line 254).     *)
(* The callbacks of the outstanding requests arrive in any order: one made *)
(* before the form was last reset (stale) or one made since.               *)
(***************************************************************************)
HandleGetLocation(supported) ==
    /\ pc = "ready"
    /\ ocrResult # Null
    /\ userLocation = Null
    /\ IF supported
       THEN /\ geoOps < MaxGeo
            /\ geoOps' = geoOps + 1
            /\ RenderForm(Form)
       ELSE /\ geoOps' = geoOps
            /\ RenderForm([Form EXCEPT !.error = Some(GeoUnsupported)])
    /\ UNCHANGED <<isLoadingOcr, isLoadingAnalysis, analysisResult, analysisQuery,
                   pc, queuedRecords, queuedError, ocrOps, analysisOps, boot, flow>>

\* the success callback, lines 142-147
GeoSuccess(position) ==
    /\ pc = "ready"
    /\ geoOps > 0
    /\ geoOps' = geoOps - 1
    /\ RenderForm([Form EXCEPT !.userLocation = Some(position)])
    /\ \E stale \in BOOLEAN :
           /\ IF stale THEN flow.staleGeo > 0 ELSE geoOps > flow.staleGeo
           /\ flow' = [flow EXCEPT !.staleGeo = IF stale THEN @ - 1 ELSE @,
                                   !.location = IF stale THEN "stale" ELSE "own"]
    /\ UNCHANGED <<isLoadingOcr, isLoadingAnalysis, analysisResult, analysisQuery,
                   pc, queuedRecords, queuedError, ocrOps, analysisOps, boot>>

\* the error callback that only logs the failure
GeoErrorSilent ==
    /\ pc = "ready"
    /\ geoOps > 0
    /\ geoOps' = geoOps - 1
    /\ RenderForm(Form)
    /\ \E stale \in BOOLEAN :
           /\ IF stale THEN flow.staleGeo > 0 ELSE geoOps > flow.staleGeo
           /\ flow' = [flow EXCEPT !.staleGeo = IF stale THEN @ - 1 ELSE @]
    /\ UNCHANGED <<isLoadingOcr, isLoadingAnalysis, analysisResult, analysisQuery,
                   pc, queuedRecords, queuedError, ocrOps, analysisOps, boot>>

\* the error callback, lines 148-151
GeoError ==
    /\ pc = "ready"
    /\ geoOps > 0
    /\ geoOps' = geoOps - 1
    /\ RenderForm([Form EXCEPT !.error = Some(GeoFailure)])
    /\ \E stale \in BOOLEAN :
           /\ IF stale THEN flow.staleGeo > 0 ELSE geoOps > flow.staleGeo
           /\ flow' = [flow EXCEPT !.staleGeo = IF stale THEN @ - 1 ELSE @]
    /\ UNCHANGED <<isLoadingOcr, isLoadingAnalysis, analysisResult, analysisQuery,
                   pc, queuedRecords, queuedError, ocrOps, analysisOps, boot>>

(***************************************************************************)
(* The Record Store handlers.                                              *)
(***************************************************************************)
\* `${new Date().toISOString()}-${Math.random()}`, line 164
MakeId(t, rnd) == <<toISOString(t), rnd>>

Ids == {MakeId(t, rnd) : t \in Times, rnd \in Randoms}

\* the record of lines 163-170
NewRecord(nameField, priceField, tId, rnd, tDate) ==
    [id |-> MakeId(tId, rnd),
     imageUrl |-> imagePreview[1],
     name |-> nameField,
     price |-> parseFloat(priceField),
     date |-> toISOString(tDate),
     location |-> userLocation]

\* prev => [...prev, newRecord]
AppendBehind(newRecord, prev) == prev \o <<newRecord>>

\* prev => [newRecord, ...prev], line 172
Prepend(newRecord, prev) == <<newRecord>> \o prev

\* the handler without its resetAddForm() call
HandleAddRecordKeepsForm(nameField, priceField, tId, rnd, tDate, writeOk) ==
    /\ pc = "ready"
    /\ IF ocrResult = Null \/ imagePreview = Null
       THEN UNCHANGED vars
       ELSE /\ Len(records) < MaxRecords
            /\ UNCHANGED <<ocrResult, imagePreview, userLocation>>
            /\ Render(Prepend(NewRecord(nameField, priceField, tId, rnd, tDate),
                              records),
                      TRUE, TRUE, searchTerm, dateFilter, error, writeOk)
            /\ boot' = Null
            /\ flow' = [flow EXCEPT !.status = "added"]
            /\ UNCHANGED <<isLoadingOcr, isLoadingAnalysis, analysisResult,
                           analysisQuery, pc, queuedRecords, queuedError, ocrOps,
                           analysisOps, geoOps>>

\* handleAddRecord, lines 158-174; the two clock reads of lines 164 and 168
\* are tId and tDate
HandleAddRecord(nameField, priceField, tId, rnd, tDate, writeOk) ==
    /\ pc = "ready"
    /\ IF ocrResult = Null \/ imagePreview = Null
       THEN UNCHANGED vars
       ELSE /\ Len(records) < MaxRecords
            /\ LET f == resetAddForm(Form)
               IN  /\ ocrResult' = f.ocrResult
                   /\ imagePreview' = f.imagePreview
                   /\ userLocation' = f.userLocation
                   /\ Render(Prepend(NewRecord(nameField, priceField, tId, rnd, tDate),
                                     records),
                             TRUE, TRUE, searchTerm, dateFilter, f.error, writeOk)
            /\ boot' = Null
            /\ flow' = FlowReset("added")
            /\ UNCHANGED <<isLoadingOcr, isLoadingAnalysis, analysisResult,
                           analysisQuery, pc, queuedRecords, queuedError, ocrOps,
                           analysisOps, geoOps>>

\* records.filter(record => record.id !== id), line 177
RemoveById(recs, id) == SelectSeq(recs, LAMBDA r : r.id # id)

\* handleDeleteRecord, lines 176-178
HandleDeleteRecord(id, writeOk) ==
    /\ pc = "ready"
    /\ Render(RemoveById(records, id), TRUE, TRUE, searchTerm, dateFilter,
              error, writeOk)
    /\ boot' = Null
    /\ UNCHANGED <<isLoadingOcr, isLoadingAnalysis, ocrResult, analysisResult,
                   analysisQuery, imagePreview, userLocation, pc, queuedRecords,
                   queuedError, ocrOps, analysisOps, geoOps, flow>>

(***************************************************************************)
(* The filter inputs, lines 316 and 322.                                   *)
(***************************************************************************)
DateFilters == {Null} \cup {Some(d) : d \in Days}

SetSearchTerm(term) ==
    /\ pc = "ready"
    /\ term # searchTerm
    /\ Render(records, FALSE, TRUE, term, dateFilter, error, TRUE)
    /\ UNCHANGED <<isLoadingOcr, isLoadingAnalysis, ocrResult, analysisResult,
                   analysisQuery, imagePreview, userLocation, pc, queuedRecords,
                   queuedError, ocrOps, analysisOps, geoOps, boot, flow>>

SetDateFilter(dateF) ==
    /\ pc = "ready"
    /\ dateF # dateFilter
    /\ Render(records, FALSE, TRUE, searchTerm, dateF, error, TRUE)
    /\ UNCHANGED <<isLoadingOcr, isLoadingAnalysis, ocrResult, analysisResult,
                   analysisQuery, imagePreview, userLocation, pc, queuedRecords,
                   queuedError, ocrOps, analysisOps, geoOps, boot, flow>>

(***************************************************************************)
(* Analysis, lines 180-195 and 283-297.                                    *)
(***************************************************************************)
Queries == {<<>>, <<" ", " ">>, <<" ", "q">>}
Answers == {<<"a">>}
AnalysisErrors == {"", AnalysisFailure}

RECURSIVE trimStart(_)
trimStart(s) == IF s # <<>> /\ s[1] = " " THEN trimStart(Tail(s)) ELSE s

RECURSIVE trimEnd(_)
trimEnd(s) ==
    IF s # <<>> /\ s[Len(s)] = " " THEN trimEnd(SubSeq(s, 1, Len(s) - 1)) ELSE s

\* the guard testing the query as typed (!analysisQuery)
trimNothing(s) == s

\* String.prototype.trim
trim(s) == trimEnd(trimStart(s))

\* the textarea (disabled={isLoadingAnalysis}, line 289)
SetAnalysisQuery(q) ==
    /\ pc = "ready"
    /\ ~isLoadingAnalysis
    /\ q # analysisQuery
    /\ analysisQuery' = q
    /\ UNCHANGED <<records, filteredRecords, isLoadingOcr, isLoadingAnalysis,
                   ocrResult, analysisResult, error, imagePreview, userLocation,
                   searchTerm, dateFilter, persisted, pc, queuedRecords,
                   queuedError, ocrOps, analysisOps, geoOps, saveStatus, failures, boot, flow>>

\* the submit button: disabled={isLoadingAnalysis || records.length === 0}, line 294
AnalyzeDisabled == isLoadingAnalysis \/ Len(records) = 0

\* handleAnalyze up to its await, lines 180-188
HandleAnalyze ==
    /\ pc = "ready"
    /\ ~AnalyzeDisabled
    /\ analysisOps < MaxInFlight
    /\ IF trim(analysisQuery) = <<>>
       THEN UNCHANGED vars
       ELSE /\ isLoadingAnalysis' = TRUE
            /\ analysisResult' = <<>>
            /\ analysisOps' = analysisOps + 1
            /\ RenderForm([Form EXCEPT !.error = Null])
            /\ UNCHANGED <<isLoadingOcr, analysisQuery, pc, queuedRecords,
                           queuedError, ocrOps, geoOps, boot, flow>>

\* analyzeShoppingHistory resolves: line 189 and the finally block
AnalyzeResolved(answer) ==
    /\ pc = "ready"
    /\ analysisOps > 0
    /\ analysisOps' = analysisOps - 1
    /\ analysisResult' = answer
    /\ isLoadingAnalysis' = FALSE
    /\ RenderForm(Form)
    /\ UNCHANGED <<isLoadingOcr, analysisQuery, pc, queuedRecords, queuedError,
                   ocrOps, geoOps, boot, flow>>

\* analyzeShoppingHistory rejects: the catch and finally blocks
AnalyzeRejected(message) ==
    /\ pc = "ready"
    /\ analysisOps > 0
    /\ analysisOps' = analysisOps - 1
    /\ isLoadingAnalysis' = FALSE
    /\ RenderForm([Form EXCEPT !.error = Some(MessageOr(message, AnalysisUnknown))])
    /\ UNCHANGED <<isLoadingOcr, analysisResult, analysisQuery, pc, queuedRecords,
                   queuedError, ocrOps, geoOps, boot, flow>>

(***************************************************************************)
(* The specifications.  Each takes the handlers its claims are about, with *)
(* the inputs of the environment drawn from the sets named in it: the      *)
(* names typed in the form, the ticks the clock reads, the numbers         *)
(* Math.random() returns and the outcomes of a storage write.  The clock   *)
(* is the wall clock: a later read may return an earlier tick.  The two    *)
(* clock reads of one handleAddRecord run fall in the same tick.           *)
(*                                                                         *)
(* Spec: the Record Store and the add flow (load, save, reload, file       *)
(* selection, geolocation, add, remove), storage writes succeeding.        *)
(***************************************************************************)
Mount(writes) ==
    \/ LoadEffect
    \/ \E writeOk \in writes : MountSaveEffect(writeOk)
    \/ MountFilterEffect
    \/ \E writeOk \in writes : Rerender(writeOk)

FileFlow ==
    \/ \E hasFile \in BOOLEAN : HandleFileChange(hasFile)
    \/ \E i \in 1..MaxInFlight, dataUrl \in DataUrls : ResizeResolved(i, dataUrl)
    \/ \E i \in 1..MaxInFlight, message \in ResizeErrors : ResizeRejected(i, message)
    \/ \E i \in 1..MaxInFlight, result \in OcrResults : ExtractResolved(i, result)
    \/ \E i \in 1..MaxInFlight, message \in ExtractErrors : ExtractRejected(i, message)

Geolocation ==
    \/ \E supported \in BOOLEAN : HandleGetLocation(supported)
    \/ \E position \in Positions : GeoSuccess(position)
    \/ GeoError

AddRecord(names, times, randoms, writes) ==
    \E nameField \in names, priceField \in PriceFields, tId \in times,
       rnd \in randoms, writeOk \in writes :
        HandleAddRecord(nameField, priceField, tId, rnd, tId, writeOk)

DeleteRecord(writes) ==
    \E id \in Ids, writeOk \in writes : HandleDeleteRecord(id, writeOk)

Next ==
    \/ Mount({TRUE})
    \/ Reload
    \/ FileFlow
    \/ Cancel
    \/ Geolocation
    \/ AddRecord({Milk}, {0, MaxTime}, Randoms, {TRUE})
    \/ DeleteRecord({TRUE})

Spec == Init /\ [][Next]_vars

(***************************************************************************)
(* SpecStorage: the Record Store over a storage whose writes may throw     *)
(* (load, save, reload, file selection, add, remove).                      *)
(***************************************************************************)
NextStorage ==
    \/ Mount(BOOLEAN)
    \/ Reload
    \/ FileFlow
    \/ AddRecord({Milk}, {0, MaxTime}, Randoms, BOOLEAN)
    \/ DeleteRecord(BOOLEAN)

SpecStorage == Init /\ [][NextStorage]_vars

(***************************************************************************)
(* SpecView: the History View Filter over records of both names and every  *)
(* date, storage writes succeeding.                                        *)
(***************************************************************************)
NextView ==
    \/ Mount({TRUE})
    \/ HandleFileChange(TRUE)
    \/ \E i \in 1..MaxInFlight, dataUrl \in DataUrls : ResizeResolved(i, dataUrl)
    \/ \E i \in 1..MaxInFlight, result \in OcrResults : ExtractResolved(i, result)
    \/ AddRecord(Names, Times, {0}, {TRUE})
    \/ DeleteRecord({TRUE})
    \/ \E term \in SearchTerms : SetSearchTerm(term)
    \/ \E dateF \in DateFilters : SetDateFilter(dateF)

SpecView == Init /\ [][NextView]_vars

(***************************************************************************)
(* SpecAsync: the two asynchronous flows, extraction and analysis.         *)
(***************************************************************************)
NextAsync ==
    \/ Mount({TRUE})
    \/ FileFlow
    \/ Cancel
    \/ AddRecord({Milk}, Times, {0}, {TRUE})
    \/ DeleteRecord({TRUE})
    \/ \E q \in Queries : SetAnalysisQuery(q)
    \/ HandleAnalyze
    \/ \E answer \in Answers : AnalyzeResolved(answer)
    \/ \E message \in AnalysisErrors : AnalyzeRejected(message)

SpecAsync == Init /\ [][NextAsync]_vars

(***************************************************************************)
(* SpecAsyncFair: SpecAsync with every promise awaited by a handler        *)
(* settling eventually: the resize and the extraction call of              *)
(* handleFileChange, and the analysis call of handleAnalyze, each resolve  *)
(* or reject.                                                              *)
(***************************************************************************)
\* the promise awaited by an outstanding handleFileChange settles
OcrCompletes ==
    \E i \in 1..MaxInFlight :
        \/ \E dataUrl \in DataUrls : ResizeResolved(i, dataUrl)
        \/ \E message \in ResizeErrors : ResizeRejected(i, message)
        \/ \E result \in OcrResults : ExtractResolved(i, result)
        \/ \E message \in ExtractErrors : ExtractRejected(i, message)

\* the promise awaited by an outstanding handleAnalyze settles
AnalysisCompletes ==
    \/ \E answer \in Answers : AnalyzeResolved(answer)
    \/ \E message \in AnalysisErrors : AnalyzeRejected(message)

SpecAsyncFair ==
    Init /\ [][NextAsync]_vars /\ WF_vars(OcrCompletes) /\ WF_vars(AnalysisCompletes)

(***************************************************************************)
(* The claims.                                                             *)
(***************************************************************************)
\* a step in which handleFileChange ends in its catch block: the loading
\* flag is released and no OCR result is set
FileChangeFailure ==
    /\ pc = "ready" /\ pc' = "ready"
    /\ isLoadingOcr /\ ~isLoadingOcr'
    /\ ocrResult' = Null

\* C1: when image decoding or the extraction call fails, the error state is
\* non-null (it holds the failure message) once the handler has finished.
C1_FailureMessageShown == [][FileChangeFailure => error' # Null]_vars

\* the collection the text of the slot denotes
SlotCollection == parse(persisted).value

\* C2: once the save effect triggered by the latest change of records has
\* run successfully, the slot holds the in-memory collection: the same
\* records in the same order.
C2_PersistedEqualsRecords ==
    saveStatus = "ok" => (persisted.kind = "array" /\ SlotCollection = records)

\* a successful save after an earlier failed one, two records in memory
C2_Witness ==
    /\ pc = "ready" /\ saveStatus = "ok" /\ failures > 0
    /\ Len(records) = 2
    /\ SlotCollection = records

\* C3: a successful save followed by a load on a fresh start yields an
\* in-memory collection equal to the one saved (the empty collection and
\* records without a location included).
C3_RoundTrip == (pc = "ready" /\ boot # Null) => records = boot[1]

\* after a reload, two loaded records, one with a location and one without
C3_Witness ==
    /\ pc = "ready" /\ boot # Null
    /\ Len(records) = 2
    /\ records[1].location = Null
    /\ records[2].location # Null

\* C4: after handleDeleteRecord(id) no record with that id remains, the size
\* decreases by exactly one if the id existed and is unchanged otherwise,
\* and the other records keep their content and relative order.
C4_RemoveExactlyOne ==
    [][\A id \in Ids, writeOk \in BOOLEAN :
         HandleDeleteRecord(id, writeOk) =>
           /\ \A i \in DOMAIN records' : records'[i].id # id
           /\ Len(records') = Len(records) -
                (IF \E i \in DOMAIN records : records[i].id = id THEN 1 ELSE 0)
           /\ records' = SelectSeq(records, LAMBDA r : r.id # id)]_vars

\* two characters equal up to case
SameLetter(a, b) ==
    \/ a = b
    \/ {a, b} \in {{"m", "M"}, {"i", "I"}, {"l", "L"}, {"k", "K"}, {"b", "B"},
                   {"r", "R"}, {"e", "E"}, {"a", "A"}, {"d", "D"}}

\* name contains term, case-insensitively
ContainsIgnoringCase(name, term) ==
    \E k \in 0..(Len(name) - Len(term)) :
        \A i \in 1..Len(term) : SameLetter(name[k + i], term[i])

\* the UTC calendar day of an ISO date
CalendarDay(iso) == getTime(iso) \div TicksPerDay

\* C5: every record of filteredRecords satisfies each active predicate,
\* filteredRecords is sorted by date descending, and with no filter the
\* records Milk (day 0) then Bread (day 1) are displayed as [Bread, Milk].
C5_FilteredSatisfyAndSorted ==
    /\ \A i \in DOMAIN filteredRecords :
         /\ searchTerm # <<>> =>
              ContainsIgnoringCase(filteredRecords[i].name, searchTerm)
         /\ dateFilter # Null =>
              CalendarDay(filteredRecords[i].date) = dateFilter[1]
    /\ \A i, j \in DOMAIN filteredRecords :
         i < j => getTime(filteredRecords[i].date) >= getTime(filteredRecords[j].date)
    /\ ( /\ searchTerm = <<>> /\ dateFilter = Null
         /\ Len(records) = 2
         /\ records[2].name = Milk /\ CalendarDay(records[2].date) = 0
         /\ records[1].name = Bread /\ CalendarDay(records[1].date) = 1 )
       => [i \in DOMAIN filteredRecords |-> filteredRecords[i].name] = <<Bread, Milk>>

\* both filters active, the term in upper case, one of two records kept,
\* the store not in display order
C5_Witness ==
    /\ searchTerm = <<"R", "E">>
    /\ dateFilter # Null
    /\ Len(records) = 2
    /\ Len(filteredRecords) = 1
    /\ getTime(records[1].date) < getTime(records[2].date)

\* C6: recomputing the filtered view never changes the Record Store: a
\* change of a filter input, and the filter effect at mount, leave records
\* as it was, and a filter-input change does not write the slot.
C6_FilterLeavesStore ==
    [][ /\ (searchTerm' # searchTerm \/ dateFilter' # dateFilter)
             => (records' = records /\ persisted' = persisted)
        /\ (pc = "saved" /\ pc' = "effects") => records' = records ]_vars

\* a search term was entered over a store that is not in display order:
\* the view is sorted, the store is as it was
C6_Witness ==
    /\ pc = "ready"
    /\ searchTerm = <<"m", "i", "l">> /\ dateFilter = Null
    /\ Len(records) = 2
    /\ getTime(records[1].date) < getTime(records[2].date)
    /\ filteredRecords = <<records[2], records[1]>>

\* C7: the file input is disabled while an extraction is in flight and the
\* analyze button while an analysis is, so no two extractions and no two
\* analyses are ever outstanding together.
C7_ControlsDisabledInFlight ==
    /\ Len(ocrOps) > 0 => isLoadingOcr
    /\ analysisOps > 0 => (isLoadingAnalysis /\ AnalyzeDisabled)
    /\ Len(ocrOps) <= 1
    /\ analysisOps <= 1

\* an extraction and an analysis in flight together
C7_Witness == Len(ocrOps) = 1 /\ analysisOps = 1

\* C8: load at process start never crashes the application, whatever the
\* slot holds.
C8_LoadNeverCrashes == pc # "crashed"

\* a step in which the save effect of an add or a remove fails
SaveFailure == pc = "ready" /\ pc' = "ready" /\ failures' = failures + 1

\* C9: when a save fails after an add or remove, the storage warning is in
\* the error state after the action, records keeps the mutation and the
\* slot keeps its previous content.
C9_FailedSaveWarns ==
    [][SaveFailure =>
         /\ error' = Some(StorageWarning)
         /\ persisted' = persisted
         /\ \/ Len(records') = Len(records) + 1 /\ Tail(records') = records
            \/ \E id \in Ids : records' = SelectSeq(records, LAMBDA r : r.id # id)]_vars

\* the warning shown after a failed save of an add, the record kept in
\* memory and missing from the slot
C9_Witness ==
    /\ pc = "ready" /\ saveStatus = "failed"
    /\ error = Some(StorageWarning)
    /\ Len(records) = 1
    /\ persisted.kind = "array" /\ SlotCollection = <<>>

\* C10: in every reachable state the records of the Record Store have
\* pairwise distinct ids.
C10_UniqueIds ==
    \A i, j \in DOMAIN records : i # j => records[i].id # records[j].id

\* a query with nothing in it but whitespace
Blank(q) == \A i \in DOMAIN q : q[i] = " "

\* C11: submitting an analysis query that is empty after trimming starts no
\* external call and changes no state: isLoadingAnalysis, analysisResult,
\* error, records and the slot are as before, and while the query is blank no
\* step starts an analysis.
C11_BlankSubmitNoOp ==
    [][ /\ (Blank(analysisQuery) /\ HandleAnalyze) =>
              /\ analysisOps' = analysisOps
              /\ UNCHANGED <<isLoadingAnalysis, analysisResult, error, records,
                             persisted>>
        /\ Blank(analysisQuery) =>
              /\ analysisOps' <= analysisOps
              /\ (isLoadingAnalysis' => isLoadingAnalysis) ]_vars

\* a whitespace-only query in the textarea, the submit button enabled and
\* the answer to an earlier query still displayed
C11_Witness ==
    /\ pc = "ready"
    /\ analysisQuery = <<" ", " ">>
    /\ ~AnalyzeDisabled
    /\ analysisOps = 0
    /\ analysisResult # <<>>

\* C12: after handleAddRecord with an OCR result and a preview present,
\* records is the new record followed by the previous collection, every
\* record stored before is unchanged in content and relative order, and the
\* save effect overwrites the slot with that full collection (it is left as
\* it was when the write throws).
C12_AddPrependsAndPersists ==
    [][\A nameField \in Names, priceField \in PriceFields, t \in Times,
          rnd \in Randoms, writeOk \in BOOLEAN :
         ( /\ ocrResult # Null /\ imagePreview # Null
           /\ HandleAddRecord(nameField, priceField, t, rnd, t, writeOk) ) =>
           /\ Len(records') = Len(records) + 1
           /\ records'[1] = [id |-> <<toISOString(t), rnd>>,
                             imageUrl |-> imagePreview[1],
                             name |-> nameField,
                             price |-> priceField[1] * 100 + priceField[2],
                             date |-> toISOString(t),
                             location |-> userLocation]
           /\ \A i \in DOMAIN records : records'[i + 1] = records[i]
           /\ IF writeOk
              THEN persisted'.kind = "array" /\ parse(persisted').value = records'
              ELSE persisted' = persisted]_vars

\* a second record was added in front of the first and the slot holds both,
\* newest first
C12_Witness ==
    /\ pc = "ready" /\ flow.status = "added" /\ saveStatus = "ok"
    /\ Len(records) = 2
    /\ records[1].id # records[2].id
    /\ getTime(records[1].date) > getTime(records[2].date)
    /\ persisted.kind = "array" /\ SlotCollection = records

\* C13: after a failed image decode or extraction call ocrResult,
\* imagePreview and userLocation are all null once the handler finishes and
\* the failed flow leaves records and the slot as they were; until a later
\* extraction succeeds there is no OCR result and no step adds a record.
C13_FailedFlowResets ==
    [][ /\ \A i \in 1..MaxInFlight, message \in ResizeErrors \cup ExtractErrors :
             (ResizeRejected(i, message) \/ ExtractRejected(i, message)) =>
               /\ ocrResult' = Null /\ imagePreview' = Null /\ userLocation' = Null
               /\ ~isLoadingOcr'
               /\ records' = records /\ persisted' = persisted
        /\ (pc = "ready" /\ flow.status = "failed") =>
               /\ ocrResult = Null
               /\ Len(records') <= Len(records) ]_vars

\* the flow after a stored record has failed: the form is empty and the
\* store holds the one record
C13_Witness ==
    /\ pc = "ready" /\ flow.status = "failed"
    /\ ~isLoadingOcr
    /\ ocrResult = Null /\ imagePreview = Null /\ userLocation = Null
    /\ Len(records) = 1

\* C14: on a geolocation failure, or when the capability is unsupported, a
\* message is shown (error is non-null), userLocation is left as it was
\* (unset), and the form stays submittable: the OCR result and the preview
\* are kept, and a handleAddRecord run with userLocation unset stores a
\* record whose location is absent.
C14_GeoFailureAllowsAdd ==
    [][ /\ (GeoError \/ HandleGetLocation(FALSE)) =>
              /\ error' \in {Some(GeoFailure), Some(GeoUnsupported)}
              /\ userLocation' = userLocation
              /\ ocrResult' = ocrResult /\ imagePreview' = imagePreview
              /\ records' = records
        /\ (error \in {Some(GeoFailure), Some(GeoUnsupported)} /\ ocrResult # Null) =>
              imagePreview # Null
        /\ \A nameField \in Names, priceField \in PriceFields, t \in Times,
              rnd \in Randoms, writeOk \in BOOLEAN :
             ( /\ ocrResult # Null /\ imagePreview # Null /\ userLocation = Null
               /\ HandleAddRecord(nameField, priceField, t, rnd, t, writeOk) ) =>
               /\ Len(records') = Len(records) + 1
               /\ records'[1].location = Null ]_vars

\* the failure message of the error callback shown over a form that can
\* still be submitted, no location set
C14_Witness ==
    /\ pc = "ready"
    /\ error = Some(GeoFailure)
    /\ ocrResult # Null /\ imagePreview # Null
    /\ userLocation = Null
    /\ geoOps = 0
    /\ Len(records) < MaxRecords

\* how many elements of s are equal to r
Count(s, r) == Cardinality({i \in DOMAIN s : s[i] = r})

\* r satisfies every active predicate
Kept(r) ==
    /\ searchTerm # <<>> => ContainsIgnoringCase(r.name, searchTerm)
    /\ dateFilter # Null => CalendarDay(r.date) = dateFilter[1]

\* C15: the filtered view loses and duplicates nothing: every record of the
\* store that satisfies all active predicates is in filteredRecords as many
\* times as it is in the store (once), filteredRecords holds nothing else,
\* and with neither filter set it is a permutation of records.
C15_NothingLostOrDuplicated ==
    /\ \A i \in DOMAIN records :
         Kept(records[i]) =>
            Count(filteredRecords, records[i]) = Count(records, records[i])
    /\ \A i \in DOMAIN filteredRecords :
         Count(filteredRecords, filteredRecords[i]) = Count(records, filteredRecords[i])
    /\ (searchTerm = <<>> /\ dateFilter = Null) =>
         /\ Len(filteredRecords) = Len(records)
         /\ \A i \in DOMAIN records :
              Count(filteredRecords, records[i]) = Count(records, records[i])

\* a lower-case term over a store of Milk and Bread: the view is the one
\* Milk record
C15_Witness ==
    /\ pc = "ready"
    /\ searchTerm = <<"m", "i", "l">>
    /\ Len(records) = 2
    /\ {records[1].name, records[2].name} = {Milk, Bread}
    /\ Len(filteredRecords) = 1
    /\ filteredRecords[1].name = Milk

\* C16: from process start until the first add or remove, in every state
\* (those between the mount-time effects and the render that applies the
\* loaded records included) the slot holds the collection that was persisted
\* before startup.
C16_StartupKeepsSlot ==
    boot # Null => (persisted.kind = "array" /\ SlotCollection = boot[1])

\* C17: a record stored with a location had that location requested
\* (handleGetLocation) after the extraction that produced its OCR result and
\* before its submission: the callback of a request made before the form
\* was last reset never sets the location of a later record.
C17_LocationOfOwnFlow ==
    [][ ( /\ pc = "ready"
          /\ Len(records') = Len(records) + 1
          /\ records'[1].location # Null ) => flow.location = "own" ]_vars

\* C18: given that every started resize, extraction call and analysis call
\* eventually settles, isLoadingOcr and isLoadingAnalysis each eventually
\* return to false after being set, on the success and on the failure path.
C18_LoadingReleased ==
    /\ isLoadingOcr ~> ~isLoadingOcr
    /\ isLoadingAnalysis ~> ~isLoadingAnalysis

\* both flags released on the failure path: the latest extraction failed
\* and the message of a rejected analysis is shown
C18_Witness ==
    /\ pc = "ready"
    /\ flow.status = "failed" /\ ~isLoadingOcr /\ ocrOps = <<>>
    /\ error = Some(AnalysisFailure) /\ ~isLoadingAnalysis /\ analysisOps = 0

\* C19: records changes only through load (a fresh start and the render
\* applying the loaded collection), add and remove; add takes effect only
\* with an OCR result and a preview present, a submit without one leaves
\* records and the slot unchanged (no step that changes either is such a
\* submit); after an add or a cancel ocrResult, imagePreview and
\* userLocation are null.
C19_RecordsChangeOnlyByStore ==
    [][ /\ records' # records =>
              \/ pc' = "mount"
              \/ pc = "effects"
              \/ /\ pc = "ready"
                 /\ ocrResult # Null /\ imagePreview # Null
                 /\ Len(records') = Len(records) + 1
                 /\ Tail(records') = records
              \/ /\ pc = "ready"
                 /\ \E id \in Ids : records' = SelectSeq(records, LAMBDA r : r.id # id)
        /\ ( /\ ocrResult = Null \/ imagePreview = Null
             /\ records' # records \/ persisted' # persisted ) =>
              \A nameField \in Names, priceField \in PriceFields, t \in Times,
                 rnd \in Randoms, writeOk \in BOOLEAN :
                  ~HandleAddRecord(nameField, priceField, t, rnd, t, writeOk)
        /\ (pc = "ready" /\ (ocrResult = Null \/ imagePreview = Null)) =>
              Len(records') <= Len(records)
        /\ (pc = "ready" /\ Len(records') = Len(records) + 1) =>
              (ocrResult' = Null /\ imagePreview' = Null /\ userLocation' = Null)
        /\ Cancel =>
              /\ ocrResult' = Null /\ imagePreview' = Null /\ userLocation' = Null
              /\ records' = records /\ persisted' = persisted ]_vars

\* a second add flow was cancelled after its location had been requested:
\* the form is empty and the store holds the one record added before
C19_Witness ==
    /\ pc = "ready" /\ flow.status = "cancelled"
    /\ ocrResult = Null /\ imagePreview = Null /\ userLocation = Null
    /\ flow.staleGeo = 1
    /\ Len(records) = 1
    /\ persisted.kind = "array" /\ SlotCollection = records

====
